---- MODULE Spec2Model ----
(***************************************************************************)
(* Model of src/Surveylance.py: one run of the insider-trading watchlist   *)
(* script over an uploaded batch of executed orders.  The state is the     *)
(* DataFrame the script works on, the widget values it reads, the tables   *)
(* it has rendered so far and the run-level error; one action per section  *)
(* of the script.                                                          *)
(***************************************************************************)
EXTENDS Integers, Sequences, FiniteSets, TLC

VARIABLES
    df,                 \* the DataFrame df: a sequence of rows
    columns,            \* df.columns of the uploaded file, stripped
    ui,                 \* widget values: from_date, to_date, selected, pub
    registry,           \* the three insider account sets
    publication_types,  \* security -> "Good" / "Bad"
    insider_df,         \* the DataFrame insider_df
    tables,             \* rows handed to st.dataframe, per table
    shown,              \* tables st.dataframe was called for
    info,               \* TRUE once "No insider activities" is shown
    error,              \* the st.error of the run, or "none"
    pc                  \* the section the script is at

vars == <<df, columns, ui, registry, publication_types, insider_df,
          tables, shown, info, error, pc>>

\* ---------------------------------------------------------------- bounds
MaxTrades == 3      \* rows of the uploaded file in the detector runs
MaxRows == 2        \* rows of the uploaded file in the report runs
MaxOrderRows == 4   \* rows of the uploaded file in the ordering runs
MaxTime == 8        \* timestamps are 0..MaxTime ticks
TicksPerDay == 2    \* ticks in one calendar day

\* --------------------------------------------------------- program values
WindowDays == 3

Null == "<null>"          \* Python None / a null cell
NaN == "<NaN>"            \* a cell that is not text (float nan)
Raise == "<raise>"        \* an exception leaving the expression

directors_accounts == {"ET87CBECETA00002", "ET87CBECETA00003", "ET87CBECETA00000"}
shareholders_accounts == {"ET10CBECETA01001", "ET10CBECETA01002"}
board_accounts == {"ET10CBECETA01000", "ET10CBECETA01003"}

SourceRegistry ==
    [directors |-> directors_accounts,
     shareholders |-> shareholders_accounts,
     board |-> board_accounts]

required_cols == {"Client", "Price", "Quantity", "Side", "Date Time", "Security"}

\* Clients of the model in the order Python compares their strings.
ClientOrder ==
    << "CLIENT01", "CLIENT02", "ET10CBECETA01000", "ET10CBECETA01001",
       "ET87CBECETA00002" >>

ClientRank(c) == CHOOSE k \in 1..Len(ClientOrder) : ClientOrder[k] = c

\* ------------------------------------------------------------ pure helpers
Abs(n) == IF n < 0 THEN -n ELSE n

Range(s) == {s[k] : k \in DOMAIN s}

IsText(s) == s # NaN

\* str.lower() on the Side strings of the model.
Lower(s) ==
    CASE s = "Buy" -> "buy"
      [] s = "BUY" -> "buy"
      [] s = "buy" -> "buy"
      [] s = "Sell" -> "sell"
      [] s = "SELL" -> "sell"
      [] s = "sell" -> "sell"
      [] OTHER -> s

\* df['Date'] = df['Date Time'].dt.date
DateOf(r) == r.DateTime \div TicksPerDay

MinOf(S) == CHOOSE x \in S : \A y \in S : x <= y
MaxOf(S) == CHOOSE x \in S : \A y \in S : x >= y

\* df[col].unique() for Security, as a set.
Securities(rows) == {rows[k].Security : k \in DOMAIN rows}

Indices(rows) == {rows[k].idx : k \in DOMAIN rows}

\* ------------------------------------------------------------- classifier
\* The lambda of df['Client'].apply: first registry that holds x wins.
WatchTypeShareholderFirst(x, reg) ==
    IF x \in reg.shareholders THEN ">=5% Shareholder"
    ELSE IF x \in reg.directors THEN "Director"
    ELSE IF x \in reg.board THEN "Board Member"
    ELSE Null

WatchType(x, reg) ==
    IF x \in reg.directors THEN "Director"
    ELSE IF x \in reg.shareholders THEN ">=5% Shareholder"
    ELSE IF x \in reg.board THEN "Board Member"
    ELSE Null

\* df['Watch Type'] = df['Client'].apply(...)
Classify(rows, reg) ==
    [k \in DOMAIN rows |->
        rows[k] @@ [WatchType |-> WatchType(rows[k].Client, reg)]]

\* insider_df = df[df['Watch Type'].notna()].copy()
InsiderDfAllRows(rows) == rows

InsiderDf(rows) ==
    LET notna(r) == r.WatchType # Null IN SelectSeq(rows, notna)

\* cat_df = insider_df[insider_df['Watch Type'] == category]
CatDfDirectorOnly(rows, category) ==
    LET same(r) == r.WatchType = "Director" IN SelectSeq(rows, same)

CatDf(rows, category) ==
    LET same(r) == r.WatchType = category IN SelectSeq(rows, same)

\* ---------------------------------------------------------------- filters
\* The effective multiselect value: "All" or nothing selected means all.
SelectedSecurities(selection, rows) ==
    IF "All" \in selection \/ selection = {} THEN Securities(rows) ELSE selection

\* publication_types: only the securities whose radio is not "None".
PublicationTypes(pub) ==
    [sec \in {s \in DOMAIN pub : pub[s] # "None"} |-> pub[sec]]

\* publication_types.get(sec)
Get(types, sec) == IF sec \in DOMAIN types THEN types[sec] ELSE Null

\* df = df[mask]; df = df[df['Security'].isin(selected_securities)]
ApplyFilters(rows, from_date, to_date, selected) ==
    LET mask(r) == DateOf(r) >= from_date /\ DateOf(r) <= to_date
        isin(r) == r.Security \in selected
    IN SelectSeq(SelectSeq(rows, mask), isin)

\* ------------------------------------------------------- publication flag
\* The lambda of insider_df.apply(..., axis=1).  `and` evaluates
\* row['Side'].lower() only when the sensitivity test before it is true, and
\* .lower() raises AttributeError on a Side that is not text.
PublicationFlagCaseSensitive(row, types) ==
    IF Get(types, row.Security) = "Good" /\ row.Side = "buy"
    THEN "Good News Buy Alert"
    ELSE IF Get(types, row.Security) = "Bad" /\ row.Side = "sell"
    THEN "Bad News Sell Alert"
    ELSE Null

PublicationFlag(row, types) ==
    IF Get(types, row.Security) = "Good"
    THEN IF ~IsText(row.Side) THEN Raise
         ELSE IF Lower(row.Side) = "buy" THEN "Good News Buy Alert"
         ELSE Null
    ELSE IF Get(types, row.Security) = "Bad"
    THEN IF ~IsText(row.Side) THEN Raise
         ELSE IF Lower(row.Side) = "sell" THEN "Bad News Sell Alert"
         ELSE Null
    ELSE Null

\* insider_df['Publication Flag'] = insider_df.apply(lambda row: ..., axis=1).
\* raise is TRUE when the lambda raises on some row.  On an empty frame
\* pandas probes the lambda with an all-NaN row, gets None, and assigns an
\* empty column.
WithFlags(rows, types) ==
    [k \in DOMAIN rows |->
        rows[k] @@ [PublicationFlag |-> PublicationFlag(rows[k], types)]]

ApplyFlagsRaiseOnEmpty(rows, types) ==
    IF rows = << >> \/ \E k \in DOMAIN rows : PublicationFlag(rows[k], types) = Raise
    THEN [raise |-> TRUE, rows |-> rows]
    ELSE [raise |-> FALSE, rows |-> WithFlags(rows, types)]

ApplyFlags(rows, types) ==
    IF \E k \in DOMAIN rows : PublicationFlag(rows[k], types) = Raise
    THEN [raise |-> TRUE, rows |-> rows]
    ELSE [raise |-> FALSE, rows |-> WithFlags(rows, types)]

\* flagged_pub = insider_df[insider_df['Publication Flag'].notna()]
FlaggedPub(rows) ==
    LET notna(r) == r.PublicationFlag # Null IN SelectSeq(rows, notna)

\* ----------------------------------------------------- frequent patterns
\* Row order of sort_values(['Client', 'Date Time']).
RowLEClientOnly(a, b) == ClientRank(a.Client) <= ClientRank(b.Client)

RowLE(a, b) ==
    \/ ClientRank(a.Client) < ClientRank(b.Client)
    \/ /\ a.Client = b.Client
       /\ a.DateTime <= b.DateTime

\* Stable insertion: r goes after every row that is not greater than it.
RECURSIVE InsertRow(_, _)
InsertRow(sorted, r) ==
    IF sorted = << >> THEN << r >>
    ELSE IF RowLE(Head(sorted), r)
    THEN << Head(sorted) >> \o InsertRow(Tail(sorted), r)
    ELSE << r >> \o sorted

\* DataFrame.sort_values(['Client', 'Date Time']) (a stable lexsort).
RECURSIVE SortValues(_)
SortValues(rows) ==
    IF rows = << >> THEN << >>
    ELSE InsertRow(SortValues(SubSeq(rows, 1, Len(rows) - 1)), rows[Len(rows)])

\* (t2['Date Time'] - t1['Date Time']).days: Timedelta.days is the floor of
\* the elapsed time in whole days.
ElapsedDaysByDate(t1, t2) == DateOf(t2) - DateOf(t1)

ElapsedDays(t1, t2) == (t2.DateTime - t1.DateTime) \div TicksPerDay

InWindowStrict(t1, t2) == Abs(ElapsedDays(t1, t2)) < WindowDays

InWindow(t1, t2) == Abs(ElapsedDays(t1, t2)) <= WindowDays

\* The body of the if at lines 109-115 for one pair: the labels to add;
\* raise is TRUE when .lower() is called on a Side that is not text.
PairMatch(t1, t2) ==
    IF t1.Price = t2.Price /\ t1.Quantity = t2.Quantity
    THEN IF ~IsText(t1.Side) \/ ~IsText(t2.Side)
         THEN [raise |-> TRUE, add |-> {}]
         ELSE IF Lower(t1.Side) # Lower(t2.Side)
         THEN [raise |-> FALSE, add |-> {t1.idx, t2.idx}]
         ELSE [raise |-> FALSE, add |-> {}]
    ELSE [raise |-> FALSE, add |-> {}]

\* The inner loop over j for one i, from j on; acc holds matched_indices.
RECURSIVE ScanJ(_, _, _, _)
ScanJ(client_trades, i, j, acc) ==
    IF j > Len(client_trades) THEN acc
    ELSE IF InWindow(client_trades[i], client_trades[j])
    THEN LET m == PairMatch(client_trades[i], client_trades[j])
         IN IF m.raise THEN [acc EXCEPT !.raise = TRUE]
            ELSE ScanJ(client_trades, i, j + 1,
                       [acc EXCEPT !.matched = @ \cup m.add])
    ELSE acc

\* The loop over i for one client, from i on.
RECURSIVE ScanI(_, _, _)
ScanI(client_trades, i, acc) ==
    IF i > Len(client_trades) THEN acc
    ELSE LET m == ScanJ(client_trades, i, i + 1, acc)
         IN IF m.raise THEN m ELSE ScanI(client_trades, i + 1, m)

\* df_sorted[df_sorted['Client'] == client]
ClientTrades(df_sorted, client) ==
    LET same(r) == r.Client = client IN SelectSeq(df_sorted, same)

\* The loop over df_sorted['Client'].unique(), clients from rank k on.
RECURSIVE ScanClients(_, _, _)
ScanClients(df_sorted, k, acc) ==
    IF k > Len(ClientOrder) THEN acc
    ELSE LET m == ScanI(ClientTrades(df_sorted, ClientOrder[k]), 1, acc)
         IN IF m.raise THEN m ELSE ScanClients(df_sorted, k + 1, m)

\* matched_indices after the loops, or raise.
MatchedIndices(df_sorted) ==
    ScanClients(df_sorted, 1, [raise |-> FALSE, matched |-> {}])

\* df_sorted.loc[list(matched_indices)]: the rows with these labels, one
\* per label, taken here in ascending label order.
RECURSIVE Loc(_, _)
Loc(rows, labels) ==
    IF labels = {} THEN << >>
    ELSE LET l == MinOf(labels)
             r == CHOOSE x \in Range(rows) : x.idx = l
         IN << r >> \o Loc(rows, labels \ {l})

\* freq_trades (line 119).
FreqTradesUnsorted(df_sorted, matched) ==
    IF matched # {} THEN Loc(df_sorted, matched) ELSE << >>

FreqTrades(df_sorted, matched) ==
    IF matched # {} THEN SortValues(Loc(df_sorted, matched)) ELSE << >>

\* ------------------------------------------------------------ the script
TableNames ==
    {"Director", "Shareholder", "Board", "Publication", "Frequent", "Consolidated"}

NoTables == [t \in TableNames |-> << >>]

RowsOf(Cl, Sec, Sd, Pr, Qt, Tm) ==
    [Client : Cl, Security : Sec, Side : Sd, Price : Pr, Quantity : Qt,
     DateTime : Tm]

Dates(rows) == {DateOf(rows[k]) : k \in DOMAIN rows}

\* The state when the script starts on an uploaded file of 1..N rows drawn
\* from Rows: pd.read_csv gives the rows a RangeIndex from 0; the date
\* inputs are held between the first and the last date of the file and
\* default to them; the multiselect defaults to "All"; every radio to "None".
InitWith(Rows, N, Cols, Regs, PubVals, free) ==
    \E n \in 1..N : \E b \in [1..n -> Rows] :
        /\ df = [k \in 1..n |-> b[k] @@ [idx |-> k - 1]]
        /\ columns \in Cols
        /\ registry \in Regs
        /\ ui \in [from_date : IF free THEN MinOf(Dates(b))..MaxOf(Dates(b))
                               ELSE {MinOf(Dates(b))},
                   to_date : IF free THEN MinOf(Dates(b))..MaxOf(Dates(b))
                             ELSE {MaxOf(Dates(b))},
                   selected : IF free
                              THEN {{"All"}, {}} \cup {{x} : x \in Securities(b)}
                              ELSE {{"All"}},
                   pub : [Securities(b) -> PubVals]]
        /\ publication_types = << >>
        /\ insider_df = << >>
        /\ tables = NoTables
        /\ shown = {}
        /\ info = FALSE
        /\ error = "none"
        /\ pc = "upload"

\* Lines 23-36: read the file, check the required columns, parse the dates.
Upload ==
    /\ pc = "upload"
    /\ IF ~(required_cols \subseteq columns)
       THEN /\ error' = "missing columns"
            /\ pc' = "done"
       ELSE /\ error' = error
            /\ pc' = "filter"
    /\ UNCHANGED <<df, columns, ui, registry, publication_types, insider_df,
                   tables, shown, info>>

\* Lines 38-72: read the widgets, filter by date and security, classify.
Filter ==
    /\ pc = "filter"
    /\ publication_types' = PublicationTypes(ui.pub)
    /\ df' = Classify(ApplyFilters(df, ui.from_date, ui.to_date,
                                   SelectedSecurities(ui.selected, df)),
                      registry)
    /\ insider_df' = InsiderDf(df')
    /\ pc' = "reports"
    /\ UNCHANGED <<columns, ui, registry, tables, shown, info, error>>

\* Lines 75-83: one table per category, an empty one when it has no rows.
InsiderReports ==
    /\ pc = "reports"
    /\ tables' = [tables EXCEPT
                    !.Director = CatDf(insider_df, "Director"),
                    !.Shareholder = CatDf(insider_df, ">=5% Shareholder"),
                    !.Board = CatDf(insider_df, "Board Member")]
    /\ shown' = shown \cup {"Director", "Shareholder", "Board"}
    /\ pc' = "publication"
    /\ UNCHANGED <<df, columns, ui, registry, publication_types, insider_df,
                   info, error>>

\* Lines 86-95; an exception goes to the handler of lines 130-131.
PublicationFlags ==
    /\ pc = "publication"
    /\ LET res == ApplyFlags(insider_df, publication_types)
       IN IF res.raise
          THEN /\ error' = "exception"
               /\ pc' = "done"
               /\ UNCHANGED <<insider_df, tables, shown>>
          ELSE /\ insider_df' = res.rows
               /\ tables' = [tables EXCEPT !.Publication = FlaggedPub(res.rows)]
               /\ shown' = shown \cup {"Publication"}
               /\ pc' = "frequent"
               /\ error' = error
    /\ UNCHANGED <<df, columns, ui, registry, publication_types, info>>

\* Lines 98-120; an exception goes to the handler of lines 130-131.
FrequentPatterns ==
    /\ pc = "frequent"
    /\ LET df_sorted == SortValues(df)
           res == MatchedIndices(df_sorted)
       IN IF res.raise
          THEN /\ error' = "exception"
               /\ pc' = "done"
               /\ UNCHANGED <<tables, shown>>
          ELSE /\ tables' = [tables EXCEPT
                               !.Frequent = FreqTrades(df_sorted, res.matched)]
               /\ shown' = shown \cup {"Frequent"}
               /\ pc' = "final"
               /\ error' = error
    /\ UNCHANGED <<df, columns, ui, registry, publication_types, insider_df,
                   info>>

\* Lines 123-128: the consolidated table, or the note that there is none.
FinalReport ==
    /\ pc = "final"
    /\ IF insider_df # << >>
       THEN /\ tables' = [tables EXCEPT !.Consolidated = insider_df]
            /\ shown' = shown \cup {"Consolidated"}
            /\ info' = info
       ELSE /\ info' = TRUE
            /\ UNCHANGED <<tables, shown>>
    /\ pc' = "done"
    /\ UNCHANGED <<df, columns, ui, registry, publication_types, insider_df,
                   error>>

Next ==
    \/ Upload
    \/ Filter
    \/ InsiderReports
    \/ PublicationFlags
    \/ FrequentPatterns
    \/ FinalReport

\* ----------------------------------------------------------- input sets
Director1 == "ET87CBECETA00002"
Shareholder1 == "ET10CBECETA01001"
Board1 == "ET10CBECETA01000"

AllColumns == {required_cols, required_cols \ {"Side"}}
PubChoices == {"None", "Good", "Bad"}

\* Insider and other clients, text and non-text sides, two securities with
\* any publication setting.
Init ==
    InitWith(RowsOf({Director1, "CLIENT01"}, {"X", "Y"}, {"Buy", "SELL", NaN},
                    {10}, {100}, {0}),
             MaxRows, AllColumns, {SourceRegistry}, PubChoices, FALSE)

Spec == Init /\ [][Next]_vars

\* Every client against the source's registry and against registries that
\* overlap.
OverlapUniverse == {"CLIENT01", "CLIENT02"}

Registries ==
    {SourceRegistry} \cup
    [directors : SUBSET OverlapUniverse, shareholders : SUBSET OverlapUniverse,
     board : SUBSET OverlapUniverse]

ClassInit ==
    InitWith(RowsOf(Range(ClientOrder), {"X"}, {"Buy"}, {10}, {100}, {0}),
             MaxRows, AllColumns, Registries, {"None", "Good"}, FALSE)

ClassSpec == ClassInit /\ [][Next]_vars

\* Two days, two securities and free date and security filters.
FilterInit ==
    InitWith(RowsOf({Director1, "CLIENT01"}, {"X", "Y"}, {"Buy"}, {10}, {100},
                    {0, TicksPerDay}),
             MaxRows, AllColumns, {SourceRegistry}, {"None", "Good"}, TRUE)

FilterSpec == FilterInit /\ [][Next]_vars

\* One client trading both sides at every tick of the time range.
DetectInit ==
    InitWith(RowsOf({"CLIENT01"}, {"X"}, {"Buy", "sell"}, {10}, {100},
                    0..MaxTime),
             MaxTrades, {required_cols}, {SourceRegistry}, {"None"}, FALSE)

DetectSpec == DetectInit /\ [][Next]_vars

\* Two clients, securities, prices and quantities, inside and outside the
\* window.
MatchInit ==
    InitWith(RowsOf({"CLIENT01", "CLIENT02"}, {"X", "Y"}, {"Buy", "sell", NaN},
                    {10, 11}, {100, 200}, {0, MaxTime}),
             MaxRows, {required_cols}, {SourceRegistry}, {"None"}, FALSE)

MatchSpec == MatchInit /\ [][Next]_vars

\* Two clients trading both sides at two ticks of one day.
OrderInit ==
    InitWith(RowsOf({"CLIENT01", "CLIENT02"}, {"X"}, {"Buy", "sell"}, {10},
                    {100}, {0, 1}),
             MaxOrderRows, {required_cols}, {SourceRegistry}, {"None"}, FALSE)

OrderSpec == OrderInit /\ [][Next]_vars

\* ================================================================ claims
Completed == pc = "done" /\ error = "none"

\* The Watch Type column exists.
Classified == pc \notin {"upload", "filter"} /\ error # "missing columns"

IsBuy(s) == s \in {"Buy", "BUY", "buy"}
IsSell(s) == s \in {"Sell", "SELL", "sell"}

\* The side of a trade regardless of case.
SideClass(s) == IF IsBuy(s) THEN "buy" ELSE IF IsSell(s) THEN "sell" ELSE s

OppositeSides(a, b) ==
    /\ IsText(a.Side) /\ IsText(b.Side)
    /\ SideClass(a.Side) # SideClass(b.Side)

\* Whole days elapsed between two trades, whichever is first.
DayDifference(a, b) ==
    IF a.DateTime <= b.DateTime
    THEN (b.DateTime - a.DateTime) \div TicksPerDay
    ELSE (a.DateTime - b.DateTime) \div TicksPerDay

\* Two distinct trades of one client that offset each other, window aside.
Offsetting(a, b) ==
    /\ a.idx # b.idx
    /\ a.Client = b.Client
    /\ a.Price = b.Price
    /\ a.Quantity = b.Quantity
    /\ OppositeSides(a, b)

Qualifying(a, b) == Offsetting(a, b) /\ DayDifference(a, b) <= 3

Flagged(r) == r.idx \in Indices(tables.Frequent)

Count(rows, i) == Cardinality({k \in DOMAIN rows : rows[k].idx = i})

\* C1: when the run completes, both trades of every qualifying pair (same
\* client, day-difference <= 3, equal price and quantity, opposite sides) are
\* in the frequent-pattern table, whatever other trades of the client there
\* are: the early exit drops no qualifying pair.
C1_EarlyExitKeepsPairs ==
    Completed =>
        \A a \in Range(df) : \A b \in Range(df) :
            Qualifying(a, b) => Flagged(a) /\ Flagged(b)

\* A completed run where the scan for trade a matched b and then left the
\* loop at a later trade d more than 3 days after a.
C1_Witness ==
    /\ Completed
    /\ \E a \in Range(df) : \E b \in Range(df) : \E d \in Range(df) :
        /\ Qualifying(a, b)
        /\ a.DateTime <= b.DateTime /\ b.DateTime <= d.DateTime
        /\ d.Client = a.Client /\ d.idx \notin {a.idx, b.idx}
        /\ DayDifference(a, d) > 3
        /\ Flagged(a) /\ Flagged(b)

\* C2 as stated: an offsetting pair is flagged when the second trade is
\* dated 3 calendar days after the first, and a client whose only two
\* trades are an offsetting pair dated 4 calendar days apart has neither
\* flagged, for any times of day.
C2_CalendarDayBoundary ==
    Completed =>
        \A a \in Range(df) : \A b \in Range(df) :
            Offsetting(a, b) =>
                /\ DateOf(b) - DateOf(a) = 3 => Flagged(a) /\ Flagged(b)
                /\ (DateOf(b) - DateOf(a) = 4 /\ Len(df) = 2)
                       => ~Flagged(a) /\ ~Flagged(b)

\* C2 amended: an offsetting pair is flagged when the second trade is dated
\* 3 calendar days after the first, for any times of day; a pair dated 4
\* calendar days apart is flagged too when the elapsed time is under 4 whole
\* days; and no trade is flagged without an offsetting partner at most 3
\* whole elapsed days away, so a pair 4 or more whole days apart flags
\* neither trade.
C2_ElapsedDayBoundary ==
    Completed =>
        /\ \A a \in Range(df) : \A b \in Range(df) :
            Offsetting(a, b) =>
                /\ DateOf(b) - DateOf(a) = 3 => Flagged(a) /\ Flagged(b)
                /\ (DateOf(b) - DateOf(a) = 4 /\ DayDifference(a, b) = 3)
                       => Flagged(a) /\ Flagged(b)
        /\ \A a \in Range(df) :
            Flagged(a) => \E b \in Range(df) : Qualifying(a, b)

\* A completed run with a pair dated 3 days apart, flagged, and a trade c
\* offsetting a and 4 whole days after it that is not flagged.
C2_Witness ==
    /\ Completed
    /\ \E a \in Range(df) : \E b \in Range(df) : \E c \in Range(df) :
        /\ Offsetting(a, b) /\ DateOf(b) - DateOf(a) = 3
        /\ Flagged(a) /\ Flagged(b)
        /\ Offsetting(a, c) /\ DayDifference(a, c) >= 4 /\ ~Flagged(c)

\* C3: every trade in the frequent-pattern table has a partner by the same
\* client in the same security, with equal price and quantity, the opposite
\* side and within the 3-day window.
C3_PartnerInSameSecurity ==
    Completed =>
        \A a \in Range(tables.Frequent) :
            \E b \in Range(df) : Qualifying(a, b) /\ a.Security = b.Security

\* C4: a trade whose client is in no registry is never in insider_df, the
\* only frame that carries the publication flag, and never in the
\* publication-sensitive table; every row of that table is an insider's.
InRegistry(c) ==
    c \in registry.directors \cup registry.shareholders \cup registry.board

C4_FlagOnlyForInsiders ==
    /\ \A r \in Range(insider_df) : InRegistry(r.Client)
    /\ \A r \in Range(tables.Publication) :
        InRegistry(r.Client) /\ r.WatchType # Null
    /\ Classified =>
        \A r \in Range(df) :
            r.WatchType = Null =>
                /\ ~InRegistry(r.Client)
                /\ r.idx \notin Indices(insider_df)
                /\ r.idx \notin Indices(tables.Publication)

\* The publication table was rendered for a batch holding a non-insider buy
\* in a security marked Good.
C4_Witness ==
    /\ "Publication" \in shown
    /\ \E r \in Range(df) :
        /\ ~InRegistry(r.Client)
        /\ Get(publication_types, r.Security) = "Good"
        /\ IsBuy(r.Side)
        /\ r.idx \notin Indices(tables.Publication)

\* C5: the watch type of every trade is Director if its client is a
\* director, else >=5% Shareholder if a shareholder, else Board Member if on
\* the board, else null: one of four values, the first-checked role winning.
C5_ClassifierPrecedence ==
    Classified =>
        \A r \in Range(df) :
            /\ r.WatchType \in {"Director", ">=5% Shareholder", "Board Member", Null}
            /\ r.Client \in registry.directors => r.WatchType = "Director"
            /\ (r.Client \notin registry.directors
                /\ r.Client \in registry.shareholders)
                   => r.WatchType = ">=5% Shareholder"
            /\ (r.Client \notin registry.directors
                /\ r.Client \notin registry.shareholders
                /\ r.Client \in registry.board)
                   => r.WatchType = "Board Member"
            /\ ~InRegistry(r.Client) => r.WatchType = Null

\* A classified trade of a client that is in all three registry sets.
C5_Witness ==
    /\ Classified
    /\ \E r \in Range(df) :
        /\ r.Client \in registry.directors
        /\ r.Client \in registry.shareholders
        /\ r.Client \in registry.board
        /\ r.WatchType = "Director"

\* C6: once the publication flags are computed, every insider trade carries
\* "Good News Buy Alert" iff its security is Good and its side is buy in any
\* case, "Bad News Sell Alert" iff its security is Bad and its side is sell
\* in any case, and null otherwise; the table holds the non-null ones.
Sensitivity(sec) == IF sec \in DOMAIN ui.pub THEN ui.pub[sec] ELSE "None"

C6_RuleTable ==
    "Publication" \in shown =>
        /\ Indices(insider_df) = {r.idx : r \in {x \in Range(df) : InRegistry(x.Client)}}
        /\ \A r \in Range(insider_df) :
            /\ r.PublicationFlag = "Good News Buy Alert"
                  <=> (Sensitivity(r.Security) = "Good" /\ IsBuy(r.Side))
            /\ r.PublicationFlag = "Bad News Sell Alert"
                  <=> (Sensitivity(r.Security) = "Bad" /\ IsSell(r.Side))
            /\ r.PublicationFlag \in
                  {"Good News Buy Alert", "Bad News Sell Alert", Null}
            /\ r.PublicationFlag # Null
                  <=> r.idx \in Indices(tables.Publication)

\* An insider's "SELL" in a security marked Bad carries the sell alert.
C6_Witness ==
    /\ "Publication" \in shown
    /\ \E r \in Range(insider_df) :
        /\ r.Side = "SELL"
        /\ Sensitivity(r.Security) = "Bad"
        /\ r.PublicationFlag = "Bad News Sell Alert"

\* C7: a run ends with every table produced and no error, or with an error
\* and no table produced.
C7_NoPartialFailure ==
    pc = "done" =>
        \/ /\ error = "none"
           /\ TableNames \ {"Consolidated"} \subseteq shown
           /\ "Consolidated" \in shown \/ info
        \/ /\ error # "none"
           /\ shown = {}
           /\ ~info

\* C8: a run over a file with the required columns and text sides ends
\* without error with the five tables rendered; each is empty when it has
\* no rows, and all five are when the filtered batch is empty.
FiveTables == {"Director", "Shareholder", "Board", "Publication", "Frequent"}

C8_EmptyIsNotAnError ==
    (pc = "done" /\ required_cols \subseteq columns) =>
        /\ error = "none"
        /\ FiveTables \subseteq shown
        /\ df = << >> => \A t \in FiveTables : tables[t] = << >>
        /\ insider_df = << >> =>
              \A t \in {"Director", "Shareholder", "Board", "Publication"} :
                  tables[t] = << >>
        /\ (\A a \in Range(df) : \A b \in Range(df) : ~Qualifying(a, b))
              => tables.Frequent = << >>

\* A run that filtered every row away and ended with the five tables.
C8_Witness ==
    /\ pc = "done"
    /\ df = << >>
    /\ error = "none"
    /\ FiveTables \subseteq shown

\* C9: when the run completes, every trade with a watch type is exactly
\* once in the category table of its type, in no other category table and
\* exactly once in the consolidated rows; a trade without one is in none;
\* the consolidated rows are the union of the category tables.
CategoryTable(w) ==
    CASE w = "Director" -> tables.Director
      [] w = ">=5% Shareholder" -> tables.Shareholder
      [] w = "Board Member" -> tables.Board

Categories == {"Director", ">=5% Shareholder", "Board Member"}

C10_FrequentTable ==
    Completed =>
        /\ "Frequent" \in shown
        /\ \A r \in Range(df) :
            Count(tables.Frequent, r.idx) =
                IF \E b \in Range(df) : Qualifying(r, b) THEN 1 ELSE 0
        /\ \A r \in Range(tables.Frequent) : r.idx \in Indices(df)
        /\ \A k \in DOMAIN tables.Frequent : \A l \in DOMAIN tables.Frequent :
            k < l =>
                \/ ClientRank(tables.Frequent[k].Client)
                      < ClientRank(tables.Frequent[l].Client)
                \/ /\ tables.Frequent[k].Client = tables.Frequent[l].Client
                   /\ tables.Frequent[k].DateTime <= tables.Frequent[l].DateTime

\* A completed run where a trade with two partners is in the table once,
\* another client's only trade is not, and the table is not in file order.
C10_Witness ==
    /\ Completed
    /\ \E r \in Range(df) :
        /\ Cardinality({b \in Range(df) : Qualifying(r, b)}) = 2
        /\ Count(tables.Frequent, r.idx) = 1
    /\ \E r \in Range(df) :
        /\ \A b \in Range(df) : b.Client = r.Client => b.idx = r.idx
        /\ ~Flagged(r)
    /\ \E k \in DOMAIN tables.Frequent : \E l \in DOMAIN tables.Frequent :
        k < l /\ tables.Frequent[k].idx > tables.Frequent[l].idx

====
